---- MODULE Spec2Model ----
(***************************************************************************)
(* gdkm: a keyring of SSH deploy keys persisted as JSON (Load / Save), and *)
(* the three commands generate, get and clone of main.go.                  *)
(*                                                                         *)
(* A Go string is modelled as a sequence of units.  A unit below 128 is an *)
(* ASCII byte, a unit in 128..255 is a lone byte that is not part of any   *)
(* valid UTF-8 encoding, and a larger unit is a code point that the string *)
(* holds in its valid multi-byte UTF-8 encoding.  The keyring file is the  *)
(* JSON object json.Marshal wrote, kept as its sequence of members (the    *)
(* byte-level escaping of a JSON string round-trips and is not modelled;   *)
(* the coercion of strings to valid UTF-8 is).                              *)
(*                                                                         *)
(* Commands run one at a time (one process per command).  generate and get *)
(* are one action each; clone is split at its two blocking system          *)
(* interactions (the write of the key file, the run of git) so that the    *)
(* states during a clone are visible.                                      *)
(***************************************************************************)
EXTENDS Integers, Sequences, FiniteSets, TLC

VARIABLES
    keyringFile,  \* the keyring file: [st: "absent" | "malformed" | "ok", data: members]
    keyFile,      \* the file "key" of the working directory: [exists, content, mode]
    dirs,         \* the directories of the working directory, by name: [exists, entries]
    nextKey,      \* number of key pairs GenerateKeys has produced so far
    pc,           \* "idle", or the position inside a running CloneRepository
    cmd,          \* the command being run, or the last one run
    outcome,      \* how that command ended ("running" while a clone is in progress)
    output,       \* what that command printed on standard output
    saved,        \* the keyring that command handed to Save
    calls,        \* what that command has called so far
    faults,       \* the steps of Load, Save and CloneRepository that failed in that command
    before,       \* what that command found when it started
    cur,          \* arguments of the running CloneRepository
    issued        \* history: id |-> public key and URL of the successful generates
                  \* (emptied when a failed write damages the keyring file)

vars == <<keyringFile, keyFile, dirs, nextKey, pc, cmd, outcome, output,
          saved, calls, faults, before, cur, issued>>

(***************************************************************************)
(* Bounds and input sets                                                   *)
(***************************************************************************)
MaxKeys == 2

RuneError == 65533

\* ids given on the command line: "a", the lone byte 0xFF, and U+FFFD
Ids == {<<97>>, <<255>>, <<RuneError>>}

\* the argument lists <<id, repository URL>> given to generate; the URLs are "u"
\* and "u" followed by the lone byte 0xFF
GenerateArgs == {<<<<97>>, <<117>>>>, <<<<255>>, <<117, 255>>>>, <<<<RuneError>>, <<117>>>>}

Fields == {"PublicKey", "PrivateKey", "RepositoryURL", "Nonsense"}

\* names of the directories the working directory may hold; any other name is absent
Dirs == {<<97>>}

EmptyKeyring == [k \in {} |-> 0]

\* the permission bits CloneRepository asks for, 0600 (the process's umask is
\* taken to leave the owner's bits alone)
KeyPerm == 384

NoFile == [exists |-> FALSE, content |-> <<>>, mode |-> 0]

\* a file "key" that is in the working directory before gdkm runs: one byte, mode 0644
OtherKeyFile == [exists |-> TRUE, content |-> <<120>>, mode |-> 420]

NoDir == [exists |-> FALSE, entries |-> {}]

\* what a successful git clone leaves in the destination
RepoEntries == {".git", "README.md"}

NoCalls == [gen |-> 0, save |-> 0, clone |-> 0, write |-> 0, git |-> 0, remove |-> 0]

NoCmd == [name |-> "none", nargs |-> 0, id |-> <<>>, field |-> ""]

NoCur == [url |-> <<>>, key |-> <<>>, dest |-> <<>>, err |-> FALSE]

(***************************************************************************)
(* Strings and JSON                                                        *)
(***************************************************************************)
\* json.Marshal coerces a string to valid UTF-8: every invalid byte becomes U+FFFD
ToValidUTF8(s) == [i \in DOMAIN s |-> IF s[i] >= 128 /\ s[i] <= 255 THEN RuneError ELSE s[i]]

IsValidUTF8(s) == \A i \in DOMAIN s : ~(s[i] >= 128 /\ s[i] <= 255)

\* the bytes of a string (U+FFFD is EF BF BD)
RECURSIVE Bytes(_)
Bytes(s) ==
    IF s = <<>> THEN <<>>
    ELSE (IF Head(s) = RuneError THEN <<239, 191, 189>> ELSE <<Head(s)>>) \o Bytes(Tail(s))

\* strings.Compare(s, t) < 0 on byte sequences
RECURSIVE BytesLess(_, _)
BytesLess(a, b) ==
    IF b = <<>> THEN FALSE
    ELSE IF a = <<>> THEN TRUE
    ELSE IF Head(a) # Head(b) THEN Head(a) < Head(b)
    ELSE BytesLess(Tail(a), Tail(b))

\* the keys of a map in the order json.Marshal writes them
RECURSIVE SortKeys(_)
SortKeys(S) ==
    IF S = {} THEN <<>>
    ELSE LET m == CHOOSE x \in S : \A y \in S \ {x} : BytesLess(Bytes(x), Bytes(y))
         IN  <<m>> \o SortKeys(S \ {m})

MarshalKeypair(kp) ==
    [Id            |-> ToValidUTF8(kp.Id),
     PublicKey     |-> ToValidUTF8(kp.PublicKey),
     PrivateKey    |-> ToValidUTF8(kp.PrivateKey),
     RepositoryURL |-> ToValidUTF8(kp.RepositoryURL)]

\* json.Marshal(kr): one member per map entry, sorted by key, strings coerced
Marshal(kr) ==
    LET ks == SortKeys(DOMAIN kr)
    IN  [i \in 1..Len(ks) |-> [key |-> ToValidUTF8(ks[i]), val |-> MarshalKeypair(kr[ks[i]])]]

\* json.Unmarshal into a map: members in order, a repeated key replaces the entry
RECURSIVE Unmarshal(_)
Unmarshal(ms) ==
    IF ms = <<>> THEN EmptyKeyring
    ELSE LET n    == Len(ms)
             rest == Unmarshal(SubSeq(ms, 1, n - 1))
         IN  [k \in (DOMAIN rest) \cup {ms[n].key} |->
                 IF k = ms[n].key THEN ms[n].val ELSE rest[k]]

(***************************************************************************)
(* Load and Save                                                           *)
(***************************************************************************)
\* rd: whether os.ReadFile could read an existing file
Load(file, rd) ==
    IF file.st = "absent" THEN [err |-> FALSE, kr |-> EmptyKeyring]
    ELSE IF ~rd THEN [err |-> TRUE, kr |-> EmptyKeyring]
    ELSE IF file.st = "malformed" THEN [err |-> TRUE, kr |-> EmptyKeyring]
    ELSE [err |-> FALSE, kr |-> Unmarshal(file.data)]

\* os.WriteFile opens with O_CREATE|O_TRUNC, writes, closes: a failure of the
\* open leaves the file as it was, a failure of the write leaves a truncated file.
WriteResults == {"ok", "open_failed", "write_failed"}

\* os.WriteFile(name, data, perm) on a plain file: the file after the call.  The
\* permission bits are used only when the call creates the file; a file that is
\* there keeps its own.  n: the bytes a failed write got out.
WriteFile(file, data, perm, w, n) ==
    IF w = "open_failed" THEN file
    ELSE [exists  |-> TRUE,
          content |-> IF w = "ok" THEN data ELSE SubSeq(data, 1, n),
          mode    |-> IF file.exists THEN file.mode ELSE perm]

\* Keyring.Save: the file after the call
Save(kr, file, w) ==
    IF w = "ok" THEN [st |-> "ok", data |-> Marshal(kr)]
    ELSE IF w = "open_failed" THEN file
    ELSE [st |-> "malformed", data |-> <<>>]

\* the keyring a later Load of the file would return (empty when it cannot)
Persisted == Load(keyringFile, TRUE).kr

(***************************************************************************)
(* GenerateKeys                                                            *)
(***************************************************************************)
\* the n-th key pair, each call a new one: a capital letter and a newline stand
\* for the authorized-keys line, a small letter and a newline for the PEM block
PublicKeyOf(n) == <<64 + n, 10>>

PrivateKeyOf(n) == <<96 + n, 10>>

(***************************************************************************)
(* Initial state                                                           *)
(***************************************************************************)
Init ==
    /\ keyringFile = [st |-> "absent", data |-> <<>>]
    /\ keyFile \in {NoFile, OtherKeyFile}
    /\ dirs \in [Dirs -> {NoDir, [exists |-> TRUE, entries |-> {}],
                         [exists |-> TRUE, entries |-> {"notes.txt"}]}]
    /\ nextKey = 0
    /\ pc = "idle"
    /\ cmd = NoCmd
    /\ outcome = "none"
    /\ output = <<>>
    /\ saved = EmptyKeyring
    /\ calls = NoCalls
    /\ faults = {}
    /\ before = [keyring |-> keyringFile.st, key |-> keyFile, dir |-> "none"]
    /\ cur = NoCur
    /\ issued = EmptyKeyring

(***************************************************************************)
(* generate                                                                *)
(***************************************************************************)
\* keyring[id] = kp
Insert(kr, id, kp) == [k \in (DOMAIN kr) \cup {id} |-> IF k = id THEN kp ELSE kr[k]]

\* a lookup that never finds the id
IdExistsNever(kr, id) == FALSE

\* _, exist := keyring[id]
IdExists(kr, id) == id \in DOMAIN kr

\* What one run of the generate command does, given the keyring file and the
\* number of keys produced so far.  genOk: whether GenerateKeys succeeds;
\* w: how the os.WriteFile of Save ends.
GenerateRun(file, n, nargs, id, url, rd, genOk, w) ==
    LET ld   == Load(file, rd)
        stop == [outcome |-> "", file |-> file, nextKey |-> n, saved |-> EmptyKeyring,
                 calls |-> NoCalls, output |-> <<>>, faults |-> {}]
    IN  IF ld.err THEN [stop EXCEPT !.outcome = "load_failed", !.faults = {"load"}]
        ELSE IF nargs # 2 THEN [stop EXCEPT !.outcome = "bad_args"]
        ELSE IF IdExists(ld.kr, id) THEN [stop EXCEPT !.outcome = "duplicate"]
        ELSE IF ~genOk THEN [stop EXCEPT !.outcome = "gen_failed", !.calls.gen = 1]
        ELSE LET kp == [Id |-> id, PublicKey |-> PublicKeyOf(n + 1),
                        PrivateKey |-> PrivateKeyOf(n + 1), RepositoryURL |-> url]
                 kr == Insert(ld.kr, id, kp)
             IN  [outcome |-> IF w = "ok" THEN "ok" ELSE "save_failed",
                  file    |-> Save(kr, file, w),
                  nextKey |-> n + 1,
                  saved   |-> kr,
                  calls   |-> [NoCalls EXCEPT !.gen = 1, !.save = 1],
                  output  |-> IF w = "ok" THEN kp.PublicKey ELSE <<>>,
                  faults  |-> IF w = "ok" THEN {} ELSE {"save"}]

CliGenerateKeypair(nargs, id, url, rd, genOk, w) ==
    /\ pc = "idle"
    /\ LET r == GenerateRun(keyringFile, nextKey, nargs, id, url, rd, genOk, w)
       IN  /\ r.nextKey <= MaxKeys
           /\ keyringFile' = r.file
           /\ nextKey' = r.nextKey
           /\ outcome' = r.outcome
           /\ output' = r.output
           /\ saved' = r.saved
           /\ calls' = r.calls
           /\ faults' = r.faults
           /\ issued' = IF r.outcome = "ok"
                        THEN Insert(issued, id, [pub |-> r.output, url |-> url])
                        ELSE IF r.file = keyringFile THEN issued
                        ELSE EmptyKeyring
    /\ cmd' = [name |-> "generate", nargs |-> nargs, id |-> id, field |-> ""]
    /\ before' = [keyring |-> keyringFile.st, key |-> keyFile, dir |-> "none"]
    /\ UNCHANGED <<keyFile, dirs, pc, cur>>

(***************************************************************************)
(* get                                                                     *)
(***************************************************************************)
\* the orders in which a range over a map can visit its keys
Orders(S) == {s \in [1..Cardinality(S) -> S] : \A i, j \in DOMAIN s : i # j => s[i] # s[j]}

\* fmt.Println of each id, in the order given
RECURSIVE PrintLines(_)
PrintLines(ss) == IF ss = <<>> THEN <<>> ELSE Head(ss) \o <<10>> \o PrintLines(Tail(ss))

\* the switch on the field name: [ok, text]
GetField(kp, field) ==
    IF field = "PublicKey" THEN [ok |-> TRUE, text |-> kp.PublicKey]
    ELSE IF field = "PrivateKey" THEN [ok |-> TRUE, text |-> kp.PrivateKey]
    ELSE IF field = "RepositoryURL" THEN [ok |-> TRUE, text |-> kp.RepositoryURL \o <<10>>]
    ELSE [ok |-> FALSE, text |-> <<>>]

GetRun(file, nargs, id, field, rd, order) ==
    LET ld == Load(file, rd)
    IN  IF ld.err THEN [outcome |-> "load_failed", output |-> <<>>]
        ELSE IF nargs = 0 THEN [outcome |-> "ok", output |-> PrintLines(order)]
        ELSE IF nargs # 2 THEN [outcome |-> "bad_args", output |-> <<>>]
        ELSE IF id \notin DOMAIN ld.kr THEN [outcome |-> "not_found", output |-> <<>>]
        ELSE LET f == GetField(ld.kr[id], field)
             IN  [outcome |-> IF f.ok THEN "ok" ELSE "bad_field", output |-> f.text]

\* order: the order in which the range over the keyring visits its ids
CliGetField(nargs, id, field, rd, order) ==
    /\ pc = "idle"
    /\ LET r == GetRun(keyringFile, nargs, id, field, rd, order)
       IN  /\ outcome' = r.outcome
           /\ output' = r.output
           /\ faults' = IF r.outcome = "load_failed" THEN {"load"} ELSE {}
    /\ cmd' = [name |-> "get", nargs |-> nargs, id |-> id, field |-> field]
    /\ saved' = EmptyKeyring
    /\ calls' = NoCalls
    /\ before' = [keyring |-> keyringFile.st, key |-> keyFile, dir |-> "none"]
    /\ UNCHANGED <<keyringFile, keyFile, dirs, nextKey, pc, cur, issued>>

(***************************************************************************)
(* clone                                                                   *)
(***************************************************************************)
\* os.ReadDir(dest): an error when dest is no directory, else its entries
ReadDir(d) ==
    IF d \notin DOMAIN dirs \/ ~dirs[d].exists THEN [err |-> TRUE, entries |-> {}]
    ELSE [err |-> FALSE, entries |-> dirs[d].entries]

\* what the working directory holds under the name d: "absent", "empty" or "nonempty"
DirState(d) ==
    IF d \notin DOMAIN dirs \/ ~dirs[d].exists THEN "absent"
    ELSE IF dirs[d].entries = {} THEN "empty" ELSE "nonempty"

\* a destination check that lets every directory through
DestRejectedNever(entries) == FALSE

\* len(entries) > 0
DestRejected(entries) == Cardinality(entries) > 0

\* The clone command up to the end of the destination check of CloneRepository:
\* Load, the arguments, the lookup of the id, os.ReadDir, the test of the entries.
CliCloneRepository(nargs, id, rd) ==
    /\ pc = "idle"
    /\ cmd' = [name |-> "clone", nargs |-> nargs, id |-> id, field |-> ""]
    /\ saved' = EmptyKeyring
    /\ output' = <<>>
    /\ LET ld == Load(keyringFile, rd)
           found == ~ld.err /\ nargs = 1 /\ id \in DOMAIN ld.kr
           rdir == ReadDir(id)
           passed == found /\ ~rdir.err /\ ~DestRejected(rdir.entries)
       IN  /\ before' = [keyring |-> keyringFile.st, key |-> keyFile,
                         dir |-> IF found THEN DirState(id) ELSE "none"]
           /\ calls' = IF found THEN [NoCalls EXCEPT !.clone = 1] ELSE NoCalls
           /\ outcome' = IF ld.err THEN "load_failed"
                         ELSE IF nargs # 1 THEN "bad_args"
                         ELSE IF ~found THEN "not_found"
                         ELSE IF rdir.err THEN "readdir_failed"
                         ELSE IF ~passed THEN "dest_not_empty"
                         ELSE "running"
           /\ faults' = IF ld.err THEN {"load"}
                        ELSE IF found /\ ~passed THEN {"destination"}
                        ELSE {}
           /\ pc' = IF passed THEN "write" ELSE "idle"
           /\ cur' = IF passed
                     THEN [url |-> ld.kr[id].RepositoryURL, key |-> ld.kr[id].PrivateKey,
                           dest |-> id, err |-> FALSE]
                     ELSE NoCur
    /\ UNCHANGED <<keyringFile, keyFile, dirs, nextKey, issued>>

\* os.WriteFile(file, []byte(privateKey), 0600) and the return on its error.
\* w: how the write ends; n: the bytes a failed write got out.
StageKey(w, n) ==
    /\ pc = "write"
    /\ calls' = [calls EXCEPT !.write = 1]
    /\ keyFile' = WriteFile(keyFile, cur.key, KeyPerm, w, n)
    /\ pc' = IF w = "ok" THEN "git" ELSE "idle"
    /\ outcome' = IF w = "ok" THEN "running" ELSE "stage_failed"
    /\ faults' = IF w = "ok" THEN faults ELSE faults \cup {"stage"}
    /\ cur' = IF w = "ok" THEN cur ELSE NoCur
    /\ UNCHANGED <<keyringFile, dirs, nextKey, cmd, output, saved, before, issued>>

\* cmd.Run() of git clone.  g: "ok", "exit_nonzero" or "not_started".
\* A clone that succeeds fills the destination; one that fails leaves it as it was.
RunGit(g) ==
    /\ pc = "git"
    /\ calls' = [calls EXCEPT !.git = 1]
    /\ dirs' = IF g = "ok"
               THEN [dirs EXCEPT ![cur.dest] = [exists |-> TRUE, entries |-> RepoEntries]]
               ELSE dirs
    /\ cur' = [cur EXCEPT !.err = (g # "ok")]
    /\ faults' = IF g = "ok" THEN faults ELSE faults \cup {"git"}
    /\ pc' = "defer"
    /\ UNCHANGED <<keyringFile, keyFile, nextKey, cmd, outcome, output, saved,
                   before, issued>>

\* The deferred os.Remove(file), run as CloneRepository returns; its error is
\* dropped (the value of fmt.Errorf is not used) and the return value is that of
\* the git run.  rm: whether the removal succeeds.
DeferredRemove(rm) ==
    /\ pc = "defer"
    /\ calls' = [calls EXCEPT !.remove = 1]
    /\ keyFile' = IF rm THEN NoFile ELSE keyFile
    /\ faults' = IF rm THEN faults ELSE faults \cup {"remove"}
    /\ outcome' = IF cur.err THEN "clone_failed" ELSE "ok"
    /\ cur' = NoCur
    /\ pc' = "idle"
    /\ UNCHANGED <<keyringFile, dirs, nextKey, cmd, output, saved, before, issued>>

(***************************************************************************)
(* Specification                                                           *)
(***************************************************************************)
\* generate with its two arguments (the keyring written or not), with a key
\* generation that fails, with a keyring file that cannot be read, and with an
\* argument missing
Generate ==
    \/ \E args \in GenerateArgs, w \in WriteResults :
           CliGenerateKeypair(2, args[1], args[2], TRUE, TRUE, w)
    \/ \E args \in GenerateArgs : CliGenerateKeypair(2, args[1], args[2], TRUE, FALSE, "ok")
    \/ CliGenerateKeypair(2, <<97>>, <<117>>, FALSE, TRUE, "ok")
    \/ CliGenerateKeypair(1, <<>>, <<>>, TRUE, TRUE, "ok")

\* get with an id and a field, with no argument, with an id alone or one argument
\* too many, and with a keyring file that cannot be read
Get ==
    \/ \E id \in Ids, field \in Fields :
           /\ (id \in DOMAIN Persisted \/ field = "PublicKey")
           /\ CliGetField(2, id, field, TRUE, <<>>)
    \/ \E order \in Orders(DOMAIN Persisted) : CliGetField(0, <<>>, "", TRUE, order)
    \/ \E nargs \in {1, 3} : CliGetField(nargs, <<>>, "", TRUE, <<>>)
    \/ CliGetField(2, <<97>>, "PublicKey", FALSE, <<>>)

\* clone with an id, with none or one argument too many, and with a keyring file
\* that cannot be read
Clone ==
    \/ \E id \in Ids : CliCloneRepository(1, id, TRUE)
    \/ \E nargs \in {0, 2} : CliCloneRepository(nargs, <<>>, TRUE)
    \/ CliCloneRepository(1, <<97>>, FALSE)

Stage == \E w \in WriteResults, n \in 0..(Len(cur.key) - 1) :
             (w = "write_failed" \/ n = 0) /\ StageKey(w, n)

Git == \E g \in {"ok", "exit_nonzero", "not_started"} : RunGit(g)

Deferred == \E rm \in BOOLEAN : DeferredRemove(rm)

Next == Generate \/ Get \/ Clone \/ Stage \/ Git \/ Deferred

Spec == Init /\ [][Next]_vars

(***************************************************************************)
(* Properties                                                              *)
(***************************************************************************)
\* a step that runs the generate command
GenerateStep == pc = "idle" /\ cmd'.name = "generate"

\* the last command was a clone that reached CloneRepository
CloneCalled == cmd.name = "clone" /\ calls.clone = 1

\* C1: once an invocation of CloneRepository has returned or has ended the
\* process, no file "key" exists in the working directory (there being none
\* when the invocation started).
C1_KeyAbsentAfterClone ==
    (CloneCalled /\ pc = "idle" /\ ~before.key.exists) => ~keyFile.exists

\* C2: a CloneRepository whose destination holds an entry ends at the destination
\* check: at every point of that invocation and after it the key file has not
\* been written (it is what it was before, absent if it was absent) and git has
\* not been run.
C2_RejectedBeforeStaging ==
    (CloneCalled /\ before.dir = "nonempty") =>
        /\ pc = "idle"
        /\ outcome = "dest_not_empty"
        /\ calls.write = 0
        /\ calls.git = 0
        /\ keyFile = before.key

C2_Witness ==
    CloneCalled /\ before.dir = "nonempty" /\ outcome = "dest_not_empty" /\ ~keyFile.exists

\* C3: a generate whose id is in the keyring it loaded fails, generates no key,
\* does not call Save, and leaves the keyring file and the record of that id as
\* they were.
C3_DuplicateIdRejected ==
    [][(/\ GenerateStep
        /\ cmd'.nargs = 2
        /\ outcome' # "load_failed"
        /\ cmd'.id \in DOMAIN Persisted)
       => (/\ outcome' = "duplicate"
           /\ calls'.gen = 0
           /\ calls'.save = 0
           /\ nextKey' = nextKey
           /\ keyringFile' = keyringFile
           /\ Persisted'[cmd'.id] = Persisted[cmd'.id])]_vars

C3_Witness ==
    cmd.name = "generate" /\ outcome = "duplicate" /\ cmd.id \in DOMAIN Persisted

\* C4: the persisted keyring only grows: every record a Load would return before
\* a step is returned unchanged, under the same id, after it; get and clone never
\* write the keyring file.  (Stated for the commands whose write of the keyring
\* file does not fail.)
C4_KeyringOnlyGrows ==
    [][(outcome' # "save_failed") =>
         (/\ \A k \in DOMAIN Persisted :
                 k \in DOMAIN Persisted' /\ Persisted'[k] = Persisted[k]
          /\ (cmd'.name \in {"get", "clone"} => keyringFile' = keyringFile))]_vars

\* C5: Load after Save returns the keyring that was saved; and a get of an id
\* that a generate succeeded for, with only successful generate and clone
\* commands since, prints the public key that generate printed, and the URL it
\* was given.
C5_GetReturnsGenerated ==
    /\ (cmd.name = "generate" /\ outcome = "ok") => Persisted = saved
    /\ (/\ cmd.name = "get"
        /\ cmd.nargs = 2
        /\ outcome # "load_failed"
        /\ cmd.id \in DOMAIN issued)
       => (/\ cmd.field = "PublicKey" => (outcome = "ok" /\ output = issued[cmd.id].pub)
           /\ cmd.field = "RepositoryURL" =>
                  (outcome = "ok" /\ output = issued[cmd.id].url \o <<10>>))

\* C6: a command that finds no keyring file gets an empty keyring and no error
\* from Load; a generate that then runs to its end leaves a keyring file holding
\* exactly one record, under the id it was given, with the key it generated.
C6_FirstGenerateCreatesKeyring ==
    /\ before.keyring = "absent" => outcome # "load_failed"
    /\ (cmd.name = "generate" /\ cmd.nargs = 2 /\ before.keyring = "absent")
       => outcome \in {"ok", "gen_failed", "save_failed"}
    /\ (cmd.name = "generate" /\ before.keyring = "absent" /\ outcome = "ok")
       => (DOMAIN Persisted = {cmd.id} /\ Persisted[cmd.id].PublicKey = output)

\* C7: a CloneRepository whose destination does not exist passes the destination
\* check and goes on to stage the key (and, the key staged, to run git).
C7_AbsentDestinationAccepted ==
    (CloneCalled /\ before.dir = "absent") =>
        /\ outcome \notin {"readdir_failed", "dest_not_empty"}
        /\ pc = "idle" => calls.write = 1
        /\ (pc = "idle" /\ outcome \in {"ok", "clone_failed"}) => calls.git = 1

\* C8: after a clone command that succeeded, the cloned directory holds a file
\* "key", the copy of the private key.
C8_KeyCopiedIntoClone ==
    (cmd.name = "clone" /\ pc = "idle" /\ outcome = "ok" /\ faults = {}) =>
        "key" \in dirs[cmd.id].entries

\* C9: a command in which a step of Load, Save or CloneRepository failed does not
\* end as a success; and a keyring file that is absent is no failure of Load.
C9_NoFailureSwallowed ==
    /\ (pc = "idle" /\ faults # {}) => outcome # "ok"
    /\ before.keyring = "absent" => "load" \notin faults

\* C10: while CloneRepository holds the private key in the file "key", the file's
\* permission bits are 0600, whatever was in the working directory before.
C10_StagedKeyOwnerOnly ==
    (pc \in {"git", "defer"} /\ keyFile.exists /\ keyFile.content = cur.key) =>
        keyFile.mode = KeyPerm

(***************************************************************************)
(* Supporting facts (not claims): where the code does keep its promises    *)
(***************************************************************************)
\* Save then Load returns the keyring saved when its ids and fields are valid UTF-8
RoundTripValidUTF8 ==
    (/\ cmd.name = "generate"
     /\ outcome = "ok"
     /\ \A k \in DOMAIN saved :
            IsValidUTF8(k) /\ IsValidUTF8(saved[k].Id) /\ IsValidUTF8(saved[k].RepositoryURL))
    => Persisted = saved

\* the key file is removed whenever the write that staged it and the removal succeeded
RemovedWhenStaged ==
    (CloneCalled /\ pc = "idle" /\ outcome \in {"ok", "clone_failed"} /\ "remove" \notin faults)
    => ~keyFile.exists

\* an existing, empty destination is the only one CloneRepository accepts
OnlyEmptyDestinationAccepted ==
    (CloneCalled /\ calls.write = 1) => before.dir = "empty"

\* a key file that CloneRepository creates has the bits 0600 while it holds the key
StagedKeyOwnerOnlyWhenCreated ==
    (pc \in {"git", "defer"} /\ ~before.key.exists) =>
        (keyFile.exists /\ keyFile.content = cur.key /\ keyFile.mode = KeyPerm)

\* every failure but that of the removal is reported
OtherFailuresReported ==
    (pc = "idle" /\ faults \ {"remove"} # {}) => outcome \notin {"ok", "running", "none"}

====
